---------------------------- MODULE Spec2Model ----------------------------
(***************************************************************************)
(* Model of claude_image_classification.py: the response parser            *)
(* (parse_claude_response) and the event handler (lambda_handler with      *)
(* invoke_claude_classifier, get_claude_response and updateShadowTopic).   *)
(*                                                                         *)
(* Text is a sequence of tokens.  A token stands for a fixed run of        *)
(* characters: one whitespace character (SP, LF), the colon, one of the    *)
(* six tag texts, or a word without whitespace, colon or angle bracket.    *)
(* No token is a concatenation of others, so two token sequences are equal *)
(* exactly when the strings they stand for are equal.                      *)
(* A confidence is held in hundredths: float("0.91") is 91.                *)
(***************************************************************************)
EXTENDS Integers, Sequences, FiniteSets, TLC

VARIABLES
    \* ---- parse_claude_response, run on its own (SpecParser)
    response,       \* the argument of parse_claude_response
    ppc,            \* position in parse_claude_response
    frame,          \* the locals of the try body when it ended
    result,         \* what the call returned (or the exception that escaped)
    \* ---- one lambda_handler invocation after another (Spec)
    pc,             \* position in lambda_handler and its callees
    event,          \* the event dict, mutated in place
    env,            \* what the three boundaries answer in this invocation
    locals,         \* locals of invoke_claude_classifier / lambda_handler
    calls,          \* the boundary calls made so far in this invocation
    error,          \* the exception propagating out of lambda_handler
    history         \* the finished invocations

parserVars == <<response, ppc, frame, result>>
handlerVars == <<pc, event, env, locals, calls, error, history>>
vars == <<response, ppc, frame, result, pc, event, env, locals, calls, error, history>>

-----------------------------------------------------------------------------
(* Tokens *)

SP == " "
LF == "LF"
COLON == ":"
WA_OPEN == "<waste_analysis>"
WA_CLOSE == "</waste_analysis>"
FO_OPEN == "<final_output>"
FO_CLOSE == "</final_output>"
FO_OPEN_UPPER == "<FINAL_OUTPUT>"
FO_CLOSE_UPPER == "</FINAL_OUTPUT>"

\* str.lower() on one token; tokens without cased letters map to themselves.
LowerTok(t) ==
    CASE t = "RECYCLE" -> "recycle"
      [] t = "Landfill" -> "landfill"
      [] t = "Plastic" -> "plastic"
      [] t = "Bottle" -> "bottle"
      [] t = "Tin" -> "tin"
      [] t = "Can" -> "can"
      [] t = "Category" -> "category"
      [] t = "Category_confidence" -> "category_confidence"
      [] t = "Item" -> "item"
      [] t = "Item_confidence" -> "item_confidence"
      [] t = "Note" -> "note"
      [] t = FO_OPEN_UPPER -> FO_OPEN
      [] t = FO_CLOSE_UPPER -> FO_CLOSE
      [] OTHER -> t

lower(s) == [i \in DOMAIN s |-> LowerTok(s[i])]

IsSpace(t) == t \in {SP, LF}

RECURSIVE lstrip(_)
lstrip(s) == IF s # <<>> /\ IsSpace(Head(s)) THEN lstrip(Tail(s)) ELSE s

RECURSIVE rstrip(_)
rstrip(s) ==
    IF s # <<>> /\ IsSpace(s[Len(s)]) THEN rstrip(SubSeq(s, 1, Len(s) - 1)) ELSE s

strip(s) == rstrip(lstrip(s))

\* s.split(sep): the pieces between the separators, in order.
RECURSIVE SplitFrom(_, _, _)
SplitFrom(s, sep, cur) ==
    IF s = <<>> THEN <<cur>>
    ELSE IF Head(s) = sep THEN <<cur>> \o SplitFrom(Tail(s), sep, <<>>)
    ELSE SplitFrom(Tail(s), sep, Append(cur, Head(s)))

split(s, sep) == SplitFrom(s, sep, <<>>)

\* sub in s
Contains(s, t) == \E i \in DOMAIN s : s[i] = t

RECURSIVE find(_, _, _)
find(s, t, i) ==
    IF i > Len(s) THEN 0 ELSE IF s[i] = t THEN i ELSE find(s, t, i + 1)

RECURSIVE rfind(_, _, _)
rfind(s, t, i) ==
    IF i = 0 THEN 0 ELSE IF s[i] = t THEN i ELSE rfind(s, t, i - 1)

\* line.rsplit(':', 1): cut at the rightmost colon.
SplitLastColon(line) ==
    LET k == rfind(line, COLON, Len(line))
    IN  <<SubSeq(line, 1, k - 1), SubSeq(line, k + 1, Len(line))>>

\* line.split(':', 1) on a line that holds a colon: cut at the leftmost colon.
split_colon_1(line) ==
    LET k == find(line, COLON, 1)
    IN  <<SubSeq(line, 1, k - 1), SubSeq(line, k + 1, Len(line))>>

\* The values float() accepts among the tokens, in hundredths.
FloatLiterals == {"0.91", "0.88", "0.5", "1.5"}

FloatValue(t) ==
    CASE t = "0.91" -> 91
      [] t = "0.88" -> 88
      [] t = "0.5" -> 50
      [] t = "1.5" -> 150

\* float(s) raises ValueError unless s is one numeric literal (s is stripped).
FloatOk(s) == Len(s) = 1 /\ s[1] \in FloatLiterals

-----------------------------------------------------------------------------
(* re.search(open (.*?) close, s, re.DOTALL) *)

NoMatch == [found |-> FALSE, group1 |-> <<>>]

\* A literal of the pattern matches a piece of text of the same characters
\* in the same case (no re.IGNORECASE).
MatchesLiteral(t, lit) == t = lit

\* (.*?) followed by the closing literal: the engine extends the group one
\* character at a time and stops at the first place where the closing literal
\* matches.
RECURSIVE LazyEnd(_, _, _)
LazyEnd(s, close, j) ==
    IF j > Len(s) THEN 0
    ELSE IF MatchesLiteral(s[j], close) THEN j
    ELSE LazyEnd(s, close, j + 1)

\* (.*) instead: the last place where the closing literal matches.
RECURSIVE GreedyEnd(_, _, _)
GreedyEnd(s, close, j) ==
    IF j > Len(s) THEN 0
    ELSE LET later == GreedyEnd(s, close, j + 1)
         IN  IF later # 0 THEN later
             ELSE IF MatchesLiteral(s[j], close) THEN j ELSE 0

GroupEnd(s, close, j) == LazyEnd(s, close, j)

\* The engine tries the start positions left to right and returns the first
\* position at which the whole pattern matches.
RECURSIVE SearchFrom(_, _, _, _)
SearchFrom(s, open, close, i) ==
    IF i > Len(s) THEN NoMatch
    ELSE IF MatchesLiteral(s[i], open) /\ GroupEnd(s, close, i + 1) # 0
         THEN [found |-> TRUE,
               group1 |-> SubSeq(s, i + 1, GroupEnd(s, close, i + 1) - 1)]
         ELSE SearchFrom(s, open, close, i + 1)

re_search(open, close, s) == SearchFrom(s, open, close, 1)

-----------------------------------------------------------------------------
(* parse_claude_response *)

KEY_CATEGORY == <<"Category">>
KEY_CATEGORY_CONF == <<"Category_confidence">>
KEY_ITEM == <<"Item">>
KEY_ITEM_CONF == <<"Item_confidence">>
RequiredKeys == {KEY_CATEGORY, KEY_CATEGORY_CONF, KEY_ITEM, KEY_ITEM_CONF}

UNKNOWN == <<"unknown">>

\* response_dict[key] = value
DictSet(d, k, v) == [x \in DOMAIN d \cup {k} |-> IF x = k THEN v ELSE d[x]]

EmptyDict == [x \in {} |-> <<>>]

\* for line in final_output.split('\n'): if ':' in line: ...
RECURSIVE BuildDict(_, _)
BuildDict(lines, d) ==
    IF lines = <<>> THEN d
    ELSE LET line == Head(lines)
             kv == split_colon_1(line)
         IN  IF Contains(line, COLON)
             THEN BuildDict(Tail(lines), DictSet(d, strip(kv[1]), strip(kv[2])))
             ELSE BuildDict(Tail(lines), d)

NoResult == [Name |-> <<>>, Score |-> 0]

\* The try body (lines 134-166): the locals it reached and how it ended.
\* exc = "none": it returned at line 166.
TryBody(resp) ==
    LET analysis_match == re_search(WA_OPEN, WA_CLOSE, resp)
        analysis_text == IF analysis_match.found THEN strip(analysis_match.group1) ELSE <<>>
        final_output_match == re_search(FO_OPEN, FO_CLOSE, resp)
        final_output == strip(final_output_match.group1)
        response_dict == BuildDict(split(final_output, LF), EmptyDict)
        base == [exc |-> "none", at |-> 166, analysis_text |-> analysis_text,
                 matched |-> final_output_match.found, final_output |-> <<>>,
                 response_dict |-> EmptyDict,
                 classification |-> NoResult, item |-> NoResult]
    IN  IF ~final_output_match.found
        THEN [base EXCEPT !.exc = "ValueError", !.at = 142]
        ELSE IF ~(RequiredKeys \subseteq DOMAIN response_dict)
        THEN [base EXCEPT !.exc = "ValueError", !.at = 154,
                          !.final_output = final_output, !.response_dict = response_dict]
        ELSE IF ~FloatOk(response_dict[KEY_CATEGORY_CONF])
        THEN [base EXCEPT !.exc = "ValueError", !.at = 158,
                          !.final_output = final_output, !.response_dict = response_dict]
        ELSE IF ~FloatOk(response_dict[KEY_ITEM_CONF])
        THEN [base EXCEPT !.exc = "ValueError", !.at = 163,
                          !.final_output = final_output, !.response_dict = response_dict,
                          !.classification =
                              [Name |-> lower(response_dict[KEY_CATEGORY]),
                               Score |-> FloatValue(response_dict[KEY_CATEGORY_CONF][1])]]
        ELSE [base EXCEPT !.final_output = final_output, !.response_dict = response_dict,
                          !.classification =
                              [Name |-> lower(response_dict[KEY_CATEGORY]),
                               Score |-> FloatValue(response_dict[KEY_CATEGORY_CONF][1])],
                          !.item =
                              [Name |-> lower(response_dict[KEY_ITEM]),
                               Score |-> FloatValue(response_dict[KEY_ITEM_CONF][1])]]

\* except Exception: ValueError is a subclass of Exception.
ExceptKeyErrorOnly(exc) == exc = "KeyError"

ExceptCatches(exc) == exc \in {"ValueError", "KeyError", "TypeError"}

\* A default kept at module level and overwritten with the last result
\* returned, instead of the dict built at line 172 in each call.
default_dict_shared ==
    IF history # <<>> /\ history[Len(history)].outcome = "returned"
    THEN [Name |-> history[Len(history)].event.classification,
          Score |-> history[Len(history)].event.Score]
    ELSE [Name |-> UNKNOWN, Score |-> 0]

default_dict == [Name |-> UNKNOWN, Score |-> 0]

Returned(c, i, a) ==
    [raised |-> "none", classification |-> c, item |-> i, analysis_text |-> a]

Escaped(exc) ==
    [raised |-> exc, classification |-> NoResult, item |-> NoResult, analysis_text |-> <<>>]

\* The except clause (lines 168-173) for a try body that ended as fr.
ExceptKeepsAnalysis(fr) ==
    IF ExceptCatches(fr.exc)
    THEN Returned(default_dict, default_dict, fr.analysis_text)
    ELSE Escaped(fr.exc)

ExceptClause(fr) ==
    IF ExceptCatches(fr.exc)
    THEN Returned(default_dict, default_dict, <<>>)
    ELSE Escaped(fr.exc)

TryReturn(fr) == Returned(fr.classification, fr.item, fr.analysis_text)

parse_claude_response(resp) ==
    LET fr == TryBody(resp)
    IN  IF fr.exc = "none" THEN TryReturn(fr) ELSE ExceptClause(fr)

-----------------------------------------------------------------------------
(* The replies the parser is run on *)

\* A reply is a concatenation of at most MaxSegs segments.
MaxSegs == 4

SegAnalysis == <<WA_OPEN, SP, "abc", LF, WA_CLOSE>>

\* The four lines of the prompt's format (lines 75-78).
SegBody ==
    <<LF, "Category", COLON, SP, "RECYCLE", LF,
      "Category_confidence", COLON, SP, "0.91", LF,
      "Item", COLON, SP, "Plastic", SP, "Bottle", LF,
      "Item_confidence", COLON, SP, "0.88", LF>>

SegConfidenceWord == <<"Category_confidence", COLON, SP, "high", LF>>
SegConfidenceLarge == <<SP, "Item_confidence", SP, COLON, SP, "1.5", SP, LF>>
SegNoteAndItem ==
    <<"Note", COLON, SP, "abc", LF, "Item", SP, COLON, "Tin", COLON, "Can", LF, "abc", LF>>

\* A whole block in tags of another case.
SegUpperBlock ==
    <<FO_OPEN_UPPER, "Category", COLON, "Landfill", LF,
      "Category_confidence", COLON, "0.88", LF,
      "Item", COLON, "Tin", LF,
      "Item_confidence", COLON, "0.88", FO_CLOSE_UPPER>>

SegSecondBlock ==
    <<FO_OPEN, "Category", COLON, "organic", LF,
      "Category_confidence", COLON, "0.5", LF,
      "Item", COLON, "Can", LF,
      "Item_confidence", COLON, "0.5", FO_CLOSE>>

Segments ==
    { <<FO_OPEN>>, <<FO_CLOSE>>, SegUpperBlock, SegAnalysis, SegBody,
      SegConfidenceWord, SegConfidenceLarge, SegNoteAndItem, SegSecondBlock }

RECURSIVE Concat(_)
Concat(segs) == IF segs = <<>> THEN <<>> ELSE Head(segs) \o Concat(Tail(segs))

Replies == UNION { { Concat(q) : q \in [1..n -> Segments] } : n \in 0..MaxSegs }

-----------------------------------------------------------------------------
(* parse_claude_response run on its own *)

NoFrame ==
    [exc |-> "none", at |-> 0, analysis_text |-> <<>>, matched |-> FALSE,
     final_output |-> <<>>, response_dict |-> EmptyDict,
     classification |-> NoResult, item |-> NoResult]

HandlerIdle ==
    /\ pc = "idle"
    /\ event = EmptyDict
    /\ env = EmptyDict
    /\ locals = EmptyDict
    /\ calls = <<>>
    /\ error = "none"
    /\ history = <<>>

InitParser ==
    /\ response \in Replies
    /\ ppc = "try"
    /\ frame = NoFrame
    /\ result = Escaped("none")
    /\ HandlerIdle

\* Lines 133-166: the try body runs to its return or to the first raise.
ParseTry ==
    /\ ppc = "try"
    /\ frame' = TryBody(response)
    /\ IF frame'.exc = "none"
       THEN ppc' = "returned" /\ result' = TryReturn(frame')
       ELSE ppc' = "except" /\ result' = result
    /\ UNCHANGED <<response, handlerVars>>

\* Lines 168-173: the except clause.
ParseExcept ==
    /\ ppc = "except"
    /\ result' = ExceptClause(frame)
    /\ ppc' = IF result'.raised = "none" THEN "returned" ELSE "escaped"
    /\ UNCHANGED <<response, frame, handlerVars>>

NextParser == ParseTry \/ ParseExcept

SpecParser == InitParser /\ [][NextParser]_vars

-----------------------------------------------------------------------------
(* lambda_handler, one invocation after another *)

\* The handler is invoked at most MaxInvocations times.
MaxInvocations == 3

\* Events: a storage notification, one without detail.object, one without detail.
EventFull == [detail |-> [bucket |-> [name |-> "bucket"], object |-> [key |-> "image.jpg"]]]
EventNoObject == [detail |-> [bucket |-> [name |-> "bucket"]]]
EventNoDetail == [source |-> "aws.s3"]
Events == {EventFull, EventNoObject, EventNoDetail}

\* What the model may answer, as response['output']['message']['content'][0]['text'].
ReplyHappy == SegAnalysis \o <<LF, FO_OPEN>> \o SegBody \o <<FO_CLOSE, LF>>
ReplyNoBlock == SegAnalysis \o SegBody
ReplyBadConfidence == <<FO_OPEN>> \o SegBody \o SegConfidenceWord \o <<FO_CLOSE>>
ReplyOther == <<SP>> \o SegSecondBlock
ReplyEmpty == <<>>
ModelTexts == {ReplyHappy, ReplyNoBlock, ReplyBadConfidence, ReplyOther, ReplyEmpty}

\* The answers of the boundaries: s3.get_object, bedrock_runtime.converse
\* and iot_data_client.publish.
S3Outcomes == {"ok", "ClientError", "EndpointConnectionError"}
ConverseOutcomes ==
    {[kind |-> "text", text |-> t] : t \in ModelTexts}
        \cup {[kind |-> "ClientError", text |-> <<>>], [kind |-> "KeyError", text |-> <<>>]}
PublishOutcomes == {"ok", "error"}

Call(op, arg) == [op |-> op, arg |-> arg]

\* Lines 30-31: event["detail"]["bucket"]["name"], event["detail"]["object"]["key"].
HasBucketAndKey(e) ==
    /\ "detail" \in DOMAIN e
    /\ "bucket" \in DOMAIN e.detail
    /\ "name" \in DOMAIN e.detail.bucket
    /\ "object" \in DOMAIN e.detail
    /\ "key" \in DOMAIN e.detail.object

\* get_claude_response (lines 176-199) when converse answers `outcome`:
\* the text stripped, or the exception that leaves the function.
get_claude_response_swallow(outcome) ==
    CASE outcome.kind = "text" -> [exc |-> "none", text |-> strip(outcome.text)]
      [] outcome.kind = "ClientError" -> [exc |-> "none", text |-> <<>>]
      [] OTHER -> [exc |-> outcome.kind, text |-> <<>>]

get_claude_response(outcome) ==
    CASE outcome.kind = "text" -> [exc |-> "none", text |-> strip(outcome.text)]
      [] outcome.kind = "ClientError" -> [exc |-> "ClientError", text |-> <<>>]
      [] OTHER -> [exc |-> outcome.kind, text |-> <<>>]

\* json.dumps({"state": {"desired": {"classification": result}}}) for a string.
JSON_HEAD == "{\"state\": {\"desired\": {\"classification\": "
JSON_TAIL == "}}}"
QUOTE == "\""
json_dumps_payload(res) == <<JSON_HEAD, QUOTE>> \o res \o <<QUOTE, JSON_TAIL>>

\* updateShadowTopic (lines 202-231) when publish answers `outcome`: the
\* publish calls it makes, what it returns, the exception that leaves it.
updateShadowTopic_retry(res, outcome) ==
    LET payload == json_dumps_payload(res)
    IN  IF outcome = "ok"
        THEN [calls |-> <<Call("iot.publish", payload)>>, ret |-> TRUE, exc |-> "none"]
        ELSE [calls |-> <<Call("iot.publish", payload), Call("iot.publish", payload)>>,
              ret |-> FALSE, exc |-> "none"]

updateShadowTopic_propagates(res, outcome) ==
    LET payload == json_dumps_payload(res)
    IN  IF outcome = "ok"
        THEN [calls |-> <<Call("iot.publish", payload)>>, ret |-> TRUE, exc |-> "none"]
        ELSE [calls |-> <<Call("iot.publish", payload)>>, ret |-> FALSE, exc |-> "IotError"]

updateShadowTopic_skips_unknown(res, outcome) ==
    LET payload == json_dumps_payload(res)
    IN  IF res = UNKNOWN
        THEN [calls |-> <<>>, ret |-> FALSE, exc |-> "none"]
        ELSE [calls |-> <<Call("iot.publish", payload)>>, ret |-> outcome = "ok",
              exc |-> "none"]

updateShadowTopic(res, outcome) ==
    LET payload == json_dumps_payload(res)
    IN  IF outcome = "ok"
        THEN [calls |-> <<Call("iot.publish", payload)>>, ret |-> TRUE, exc |-> "none"]
        ELSE [calls |-> <<Call("iot.publish", payload)>>, ret |-> FALSE, exc |-> "none"]

\* A finished invocation: what it was given, how it ended, what it did.
Finished(en, how, exc, ev, cs) ==
    [env |-> en, outcome |-> how, error |-> exc, event |-> ev, calls |-> cs]

Init ==
    /\ response = <<>>
    /\ ppc = "idle"
    /\ frame = NoFrame
    /\ result = Escaped("none")
    /\ HandlerIdle

\* The runtime calls lambda_handler(event, context) with a new event.
Invoke ==
    /\ pc \in {"idle", "returned", "raised"}
    /\ Len(history) < MaxInvocations
    /\ \E e \in Events :
          /\ event' = e
          /\ env' = [event |-> e]
    /\ pc' = "L30"
    /\ locals' = EmptyDict
    /\ calls' = <<>>
    /\ error' = "none"
    /\ UNCHANGED <<history, parserVars>>

\* Lines 30-31: a missing field raises KeyError, which nothing catches.
ReadEvent ==
    /\ pc = "L30"
    /\ IF HasBucketAndKey(event)
       THEN /\ locals' = [BUCKET_NAME |-> event.detail.bucket.name,
                          KEY |-> event.detail.object.key]
            /\ pc' = "L35"
            /\ UNCHANGED <<error, history>>
       ELSE /\ pc' = "raised"
            /\ error' = "KeyError"
            /\ history' = Append(history, Finished(env, "raised", "KeyError", event, calls))
            /\ UNCHANGED locals
    /\ UNCHANGED <<event, env, calls, parserVars>>

\* Lines 34-39: s3.get_object; ClientError is printed and re-raised, any
\* other exception passes through.
FetchImage ==
    /\ pc = "L35"
    /\ \E o \in S3Outcomes :
          /\ env' = DictSet(env, "s3", o)
          /\ calls' = Append(calls, Call("s3.get_object", <<locals.BUCKET_NAME, locals.KEY>>))
          /\ IF o = "ok"
             THEN /\ locals' = DictSet(locals, "image_data", "jpeg bytes")
                  /\ pc' = "L116"
                  /\ UNCHANGED <<error, history>>
             ELSE /\ pc' = "raised"
                  /\ error' = o
                  /\ history' = Append(history, Finished(env', "raised", o, event, calls'))
                  /\ UNCHANGED locals
    /\ UNCHANGED <<event, parserVars>>

\* Lines 97-116 and 122-124: the request with the image and the prompt goes
\* to get_claude_response; what it raises is printed and re-raised.
Converse ==
    /\ pc = "L116"
    /\ \E o \in ConverseOutcomes :
          LET got == get_claude_response(o)
          IN  /\ env' = DictSet(env, "bedrock", o)
              /\ calls' = Append(calls, Call("bedrock.converse", <<locals.image_data>>))
              /\ IF got.exc = "none"
                 THEN /\ locals' = DictSet(locals, "response", got.text)
                      /\ pc' = "L118"
                      /\ UNCHANGED <<error, history>>
                 ELSE /\ pc' = "raised"
                      /\ error' = got.exc
                      /\ history' =
                             Append(history, Finished(env', "raised", got.exc, event, calls'))
                      /\ UNCHANGED locals
    /\ UNCHANGED <<event, parserVars>>

\* Lines 118-124, 236: parse_claude_response(response); the triple becomes
\* classification, item_label, reason of lambda_handler.
Parse ==
    /\ pc = "L118"
    /\ LET got == parse_claude_response(locals.response)
       IN  /\ calls' = Append(calls, Call("parse_claude_response", locals.response))
           /\ IF got.raised = "none"
              THEN /\ locals' = [classification |-> got.classification,
                                 item_label |-> got.item,
                                 reason |-> got.analysis_text]
                   /\ pc' = "L241"
                   /\ UNCHANGED <<error, history>>
              ELSE /\ pc' = "raised"
                   /\ error' = got.raised
                   /\ history' =
                          Append(history, Finished(env, "raised", got.raised, event, calls'))
                   /\ UNCHANGED locals
    /\ UNCHANGED <<event, env, parserVars>>

\* Lines 241-245: the five fields are written to the event.
Annotate ==
    /\ pc = "L241"
    /\ event' =
           DictSet(DictSet(DictSet(DictSet(DictSet(event,
               "classification", locals.classification.Name),
               "Score", locals.classification.Score),
               "Item", locals.item_label.Name),
               "Item_Score", locals.item_label.Score),
               "Reason", locals.reason)
    /\ pc' = "L247"
    /\ UNCHANGED <<env, locals, calls, error, history, parserVars>>

\* Line 247: updateShadowTopic(event["classification"]); its return value is
\* dropped.
Publish ==
    /\ pc = "L247"
    /\ \E o \in PublishOutcomes :
          LET got == updateShadowTopic(event.classification, o)
          IN  /\ env' = DictSet(env, "iot", o)
              /\ calls' = calls \o got.calls
              /\ IF got.exc = "none"
                 THEN /\ pc' = "L250"
                      /\ UNCHANGED <<error, history>>
                 ELSE /\ pc' = "raised"
                      /\ error' = got.exc
                      /\ history' =
                             Append(history, Finished(env', "raised", got.exc, event, calls'))
    /\ UNCHANGED <<event, locals, parserVars>>

\* Line 250: return event.
Return ==
    /\ pc = "L250"
    /\ pc' = "returned"
    /\ history' = Append(history, Finished(env, "returned", "none", event, calls))
    /\ UNCHANGED <<event, env, locals, calls, error, parserVars>>

Next ==
    \/ Invoke
    \/ ReadEvent
    \/ FetchImage
    \/ Converse
    \/ Parse
    \/ Annotate
    \/ Publish
    \/ Return

Spec == Init /\ [][Next]_vars

-----------------------------------------------------------------------------
(* What a reply says, read off its positions (used to state the claims;    *)
(* nothing below is used by the actions)                                   *)

Min(S) == CHOOSE x \in S : \A y \in S : x <= y
Max(S) == CHOOSE x \in S : \A y \in S : x >= y

\* The positions of the first opening tag that has a closing tag after it,
\* and of the first closing tag after it.
BlockOpens(s, open, close) ==
    {i \in DOMAIN s : s[i] = open /\ \E j \in DOMAIN s : j > i /\ s[j] = close}
BlockPresent(s, open, close) == BlockOpens(s, open, close) # {}
BlockStart(s, open, close) == Min(BlockOpens(s, open, close))
BlockEnd(s, open, close) ==
    LET a == BlockStart(s, open, close)
    IN  Min({j \in DOMAIN s : j > a /\ s[j] = close})
BlockInner(s, open, close) ==
    SubSeq(s, BlockStart(s, open, close) + 1, BlockEnd(s, open, close) - 1)

\* t without its leading and trailing whitespace.
Trimmed(t) ==
    LET ink == {i \in DOMAIN t : t[i] \notin {SP, LF}}
    IN  IF ink = {} THEN <<>> ELSE SubSeq(t, Min(ink), Max(ink))

\* The lines of t, each named by the position where it starts.
LineStarts(t) == {a \in 1..(Len(t) + 1) : a = 1 \/ t[a - 1] = LF}
LineAt(t, a) ==
    LET ends == {b \in a..Len(t) : t[b] = LF}
    IN  SubSeq(t, a, IF ends = {} THEN Len(t) ELSE Min(ends) - 1)

Colons(line) == {i \in DOMAIN line : line[i] = COLON}
KeyOf(line) == Trimmed(SubSeq(line, 1, Min(Colons(line)) - 1))
ValueOf(line) == Trimmed(SubSeq(line, Min(Colons(line)) + 1, Len(line)))

\* The lines of t that give key k, and the value of the last of them.
LinesWithKey(t, k) ==
    {a \in LineStarts(t) : Colons(LineAt(t, a)) # {} /\ KeyOf(LineAt(t, a)) = k}
HasKey(t, k) == LinesWithKey(t, k) # {}
LastValue(t, k) == ValueOf(LineAt(t, Max(LinesWithKey(t, k))))

IsNumber(v) == v \in {<<x>> : x \in FloatLiterals}

\* The results block of reply s (trimmed as a whole, as a line of it is).
Results(s) == Trimmed(BlockInner(s, FO_OPEN, FO_CLOSE))

\* Reply s has a results block with the four keys and numeric confidences.
WellFormed(s) ==
    /\ BlockPresent(s, FO_OPEN, FO_CLOSE)
    /\ LET res == Results(s)
       IN  /\ \A k \in RequiredKeys : HasKey(res, k)
           /\ IsNumber(LastValue(res, KEY_CATEGORY_CONF))
           /\ IsNumber(LastValue(res, KEY_ITEM_CONF))

Rationale(s) ==
    IF BlockPresent(s, WA_OPEN, WA_CLOSE)
    THEN Trimmed(BlockInner(s, WA_OPEN, WA_CLOSE))
    ELSE <<>>

Sentinel == [Name |-> <<"unknown">>, Score |-> 0]

IsTriple(r) ==
    /\ DOMAIN r.classification = {"Name", "Score"}
    /\ DOMAIN r.item = {"Name", "Score"}
    /\ r.classification.Name \in Seq(STRING)
    /\ r.item.Name \in Seq(STRING)
    /\ r.classification.Score \in Int
    /\ r.item.Score \in Int
    /\ r.analysis_text \in Seq(STRING)

-----------------------------------------------------------------------------
(* Claims about parse_claude_response (under SpecParser) *)

\* C1: parse_claude_response is total: on every reply it ends by returning a
\* triple (category result, item result, rationale); no exception escapes,
\* whatever the try body raised.
C1_ParserTotal ==
    /\ ppc \in {"try", "except", "returned"}
    /\ ppc = "returned" => result.raised = "none" /\ IsTriple(result)

\* The try body raised on a non-numeric confidence and the call returned.
C1_Witness == ppc = "returned" /\ frame.exc = "ValueError" /\ frame.at = 158

\* C2: when the reply has no results block, or lacks one of the four keys,
\* or has a confidence that is not a number, the call returns exactly
\* ({unknown, 0.0}, {unknown, 0.0}, ""), also when an analysis block was found.
C2_FailureGivesFullDefault ==
    (ppc = "returned" /\ ~WellFormed(response)) =>
        /\ result.raised = "none"
        /\ result.classification = Sentinel
        /\ result.item = Sentinel
        /\ result.analysis_text = <<>>

\* A reply with an analysis block and a results block that misses keys.
C2_Witness ==
    /\ ppc = "returned"
    /\ Rationale(response) = <<"abc">>
    /\ BlockPresent(response, FO_OPEN, FO_CLOSE)
    /\ HasKey(Results(response), KEY_CATEGORY_CONF)
    /\ ~HasKey(Results(response), KEY_ITEM)
    /\ frame.analysis_text = <<"abc">>
    /\ result.analysis_text = <<>>

\* C3: every result returned has a score in [0,1] (0..100 hundredths); it is
\* 0.0 with name "unknown" when parsing fails.
C3_ScoreIsProbability ==
    ppc = "returned" =>
        /\ result.classification.Score \in 0..100
        /\ result.item.Score \in 0..100
        /\ ~WellFormed(response) =>
               result.classification = Sentinel /\ result.item = Sentinel

\* C4: when the results block gives the four keys with numeric confidences,
\* the names are the lowercased values of Category and Item, the scores the
\* parsed confidences, the rationale the trimmed analysis block or ""; a line
\* counts through its first colon, the last line of a key gives its value.
C4_WellFormedReplyIsParsed ==
    (ppc = "returned" /\ WellFormed(response)) =>
        LET res == Results(response)
        IN  /\ result.raised = "none"
            /\ result.classification.Name = lower(LastValue(res, KEY_CATEGORY))
            /\ result.classification.Score =
                   FloatValue(LastValue(res, KEY_CATEGORY_CONF)[1])
            /\ result.item.Name = lower(LastValue(res, KEY_ITEM))
            /\ result.item.Score = FloatValue(LastValue(res, KEY_ITEM_CONF)[1])
            /\ result.analysis_text = Rationale(response)

\* A second Item line with a colon in its value, an extra key and a line
\* without a colon follow the four lines.
C4_Witness ==
    /\ ppc = "returned"
    /\ WellFormed(response)
    /\ Cardinality(LinesWithKey(Results(response), KEY_ITEM)) = 2
    /\ HasKey(Results(response), <<"Note">>)
    /\ result.item.Name = <<"tin", COLON, "can">>
    /\ result.classification.Name = <<"recycle">>

\* The reply up to and including the first closing tag of a results block.
UpToFirstBlock(s) == SubSeq(s, 1, BlockEnd(s, FO_OPEN, FO_CLOSE))

\* C9: only the first results block counts: the results are those of the reply
\* cut after the first closing tag, the full default if that block is invalid;
\* tags in another case delimit nothing.
C9_FirstBlockOnly ==
    ppc = "returned" =>
        /\ BlockPresent(response, FO_OPEN, FO_CLOSE) =>
              LET first == UpToFirstBlock(response)
                  alone == parse_claude_response(first)
              IN  /\ result.classification = alone.classification
                  /\ result.item = alone.item
                  /\ ~WellFormed(first) => result = Returned(Sentinel, Sentinel, <<>>)
        /\ ~BlockPresent(response, FO_OPEN, FO_CLOSE) =>
              result = Returned(Sentinel, Sentinel, <<>>)

\* An empty first block is followed by a valid one: the result is the default.
C9_Witness ==
    /\ ppc = "returned"
    /\ BlockPresent(response, FO_OPEN, FO_CLOSE)
    /\ Results(response) = <<>>
    /\ Len(response) > BlockEnd(response, FO_OPEN, FO_CLOSE)
    /\ WellFormed(SubSeq(response, BlockEnd(response, FO_OPEN, FO_CLOSE) + 1, Len(response)))
    /\ result.classification = Sentinel

-----------------------------------------------------------------------------
(* Claims about lambda_handler (under Spec) *)

Ops(cs) == [i \in DOMAIN cs |-> cs[i].op]
CallOrder == <<"s3.get_object", "bedrock.converse", "parse_claude_response", "iot.publish">>
Publishes(cs) == {i \in DOMAIN cs : cs[i].op = "iot.publish"}
OutputFields == {"classification", "Score", "Item", "Item_Score", "Reason"}

FetchOk(en) == "s3" \in DOMAIN en /\ en.s3 = "ok"
InferenceOk(en) == "bedrock" \in DOMAIN en /\ en.bedrock.kind = "text"

\* The invocation given `en` met a malformed event, a failed fetch or a
\* failed inference.
Fatal(en) ==
    \/ ~HasBucketAndKey(en.event)
    \/ "s3" \in DOMAIN en /\ en.s3 # "ok"
    \/ "bedrock" \in DOMAIN en /\ en.bedrock.kind # "text"

\* The classification string inside a published payload.
PayloadClassification(payload) == SubSeq(payload, 3, Len(payload) - 2)

\* C5: in one invocation the calls are made in the order fetch, inference,
\* parse, publish, each at most once, a later one only after the earlier ones
\* succeeded; the fetch is made with the bucket and key read from the event.
C5_CallsInOrderOnce ==
    /\ Len(calls) <= Len(CallOrder)
    /\ Ops(calls) = SubSeq(CallOrder, 1, Len(calls))
    /\ Len(calls) >= 1 =>
          /\ HasBucketAndKey(event)
          /\ calls[1].arg = <<event.detail.bucket.name, event.detail.object.key>>
    /\ Len(calls) >= 2 => FetchOk(env)
    /\ Len(calls) >= 3 => InferenceOk(env)
    /\ Len(calls) >= 4 => OutputFields \subseteq DOMAIN event

\* The publish failed and the invocation returned after four calls.
C5_Witness ==
    /\ pc = "returned"
    /\ Ops(calls) = CallOrder
    /\ env.iot = "error"

\* C6: a failed publish neither fails the invocation nor changes the event
\* returned: two invocations that differ only in the publish outcome both
\* return, and return the same event.
C6_PublishFailureIsolated ==
    /\ \A i \in DOMAIN history :
          "iot" \in DOMAIN history[i].env =>
              history[i].outcome = "returned" /\ history[i].error = "none"
    /\ \A i, j \in DOMAIN history :
          ( /\ "iot" \in DOMAIN history[i].env
            /\ "iot" \in DOMAIN history[j].env
            /\ history[i].env.event = history[j].env.event
            /\ history[i].env.s3 = history[j].env.s3
            /\ history[i].env.bedrock = history[j].env.bedrock )
          => history[i].event = history[j].event
    /\ ("iot" \in DOMAIN env /\ pc # "idle") => pc \in {"L250", "returned"}

\* The same reply was handled with a successful and with a failed publish.
C6_Witness ==
    \E i, j \in DOMAIN history :
        /\ "iot" \in DOMAIN history[i].env
        /\ "iot" \in DOMAIN history[j].env
        /\ history[i].env.iot = "ok"
        /\ history[j].env.iot = "error"
        /\ history[i].env.bedrock = history[j].env.bedrock
        /\ history[i].env.bedrock.text = ReplyHappy

\* C7: a malformed event, a failed fetch or a failed inference ends the
\* invocation with the error propagated, without a publish and without any
\* of the five output fields written.
C7_FatalErrorsPropagate ==
    (pc \notin {"idle", "L30"} /\ Fatal(env)) =>
        /\ pc = "raised"
        /\ error # "none"
        /\ Publishes(calls) = {}
        /\ OutputFields \cap DOMAIN event = {}
        /\ history # <<>>
        /\ history[Len(history)] = Finished(env, "raised", error, env.event, calls)

\* The inference call failed with ClientError.
C7_Witness ==
    /\ pc = "raised"
    /\ error = "ClientError"
    /\ "bedrock" \in DOMAIN env
    /\ Ops(calls) = <<"s3.get_object", "bedrock.converse">>

\* C8: an invocation whose fetch and inference succeeded publishes exactly
\* once, and publishes the classification of the event it returns; after a
\* parse failure that is "unknown" and the event carries the defaults.
\* (Stated of the invocation that has just finished, the last of history.)
C8_PublishedIsReturned ==
    pc \in {"returned", "raised"} =>
        LET h == history[Len(history)]
        IN  (FetchOk(h.env) /\ InferenceOk(h.env)) =>
              /\ h.outcome = "returned"
              /\ Cardinality(Publishes(h.calls)) = 1
              /\ \A k \in Publishes(h.calls) :
                    /\ h.calls[k].arg[1] = JSON_HEAD
                    /\ PayloadClassification(h.calls[k].arg) = h.event.classification
              /\ ~WellFormed(h.env.bedrock.text) =>
                    /\ h.event.classification = <<"unknown">>
                    /\ h.event.Score = 0
                    /\ h.event.Item = <<"unknown">>
                    /\ h.event.Item_Score = 0
                    /\ h.event.Reason = <<>>

\* A reply without a results block was handled: "unknown" was published.
C8_Witness ==
    \E i \in DOMAIN history :
        /\ InferenceOk(history[i].env)
        /\ history[i].env.bedrock.text = ReplyNoBlock
        /\ history[i].outcome = "returned"
        /\ \E k \in Publishes(history[i].calls) :
              PayloadClassification(history[i].calls[k].arg) = <<"unknown">>

\* C10: what an invocation returns and publishes depends only on its event
\* and on what the boundaries answered in it: two invocations given the same
\* end the same way, whatever ran before them.
C10_Stateless ==
    \A i, j \in DOMAIN history :
        history[i].env = history[j].env => history[i] = history[j]

\* A parse failure, then a good reply, then the first reply again.
C10_Witness ==
    /\ Len(history) = 3
    /\ history[1].env = history[3].env
    /\ InferenceOk(history[1].env)
    /\ history[1].env.bedrock.text = ReplyBadConfidence
    /\ history[1].outcome = "returned"
    /\ InferenceOk(history[2].env)
    /\ history[2].env.bedrock.text = ReplyHappy
    /\ history[2].outcome = "returned"
    /\ history[3].event.classification = <<"unknown">>

=============================================================================
